---- MODULE Spec2Model ----
(***************************************************************************)
(* Weather Activity Advisor backend (src/backend/main.py).                 *)
(*                                                                         *)
(* Two specifications over one set of variables:                           *)
(*   Spec       one call of get_ai_suggestions (the tool-calling loop),    *)
(*              stepped statement by statement, with the language model    *)
(*              and the weather provider as nondeterministic environments; *)
(*   SpecStore  the request handlers over the module-level `sessions`     *)
(*              dictionary, run by concurrent worker threads.              *)
(***************************************************************************)
EXTENDS Integers, Sequences, FiniteSets, TLC

VARIABLES
    \* ---- locals of one get_ai_suggestions call (lines 219-457)
    pc,                     \* position in the function
    weather_data,           \* parameter weather_data (never reassigned)
    user_query,             \* parameter user_query
    language,               \* parameter language
    auto_fetch_weather,     \* parameter auto_fetch_weather (reassigned at 328)
    messages,               \* local messages
    iteration,              \* local iteration
    final_weather_data,     \* local final_weather_data
    message,                \* local message = response.choices[0].message
    tc,                     \* index of the for loop over message.tool_calls
    result,                 \* the returned dictionary
    \* ---- what the collaborators observe of that call
    rounds,                 \* loop bodies entered so far
    requests,               \* chat.completions.create calls, in order
    fetches,                \* fetch_weather calls, in order
    extracts,               \* extract_location_from_query calls, in order
    \* ---- the session store and the request threads (lines 32-33, 483-594)
    sessions,               \* the module-level dict: session id -> dict object
    heap,                   \* the dict objects ever created for sessions
    th,                     \* per worker thread: the request it is serving
    served                  \* requests accepted so far, and who took the last

adviseVars == <<pc, weather_data, user_query, language, auto_fetch_weather,
                messages, iteration, final_weather_data, message, tc, result,
                rounds, requests, fetches, extracts>>
storeVars == <<sessions, heap, th, served>>
vars == <<pc, weather_data, user_query, language, auto_fetch_weather,
          messages, iteration, final_weather_data, message, tc, result,
          rounds, requests, fetches, extracts, sessions, heap, th, served>>

(***************************************************************************)
(* Values                                                                  *)
(***************************************************************************)

\* Python None, where a string is expected.
None == "None"

\* Provider payloads that follow the provider's contract (location, current).
Snapshots == {"Tokyo 21C Sunny", "Osaka 18C Rain"}

\* A truthy payload without the 'location' key.
Malformed == "{'error': {'code': 1006}}"

\* Python truthiness of an optional string or dictionary.
Truthy(x) == x \notin {None, ""}

Languages == {"en", "ja"}

\* A formatted string is the tuple of its pieces; <<>> stands for a None content.
NoContent == <<>>
Text(s) == <<s>>

(***************************************************************************)
(* Strings as character sequences.  TLA+ strings cannot be indexed, so     *)
(* every string the program inspects character by character is listed     *)
(* here with its characters.  A character outside ASCII is written as its  *)
(* code point, "U+3067".                                                   *)
(***************************************************************************)

StringPool ==
    {"What should I wear in Tokyo today?", "What should I wear today?", "Plans for Osaka?", "What about Osaka?",
     "Tokyo today", "Osaka", "tool_use_failed", "Function calling is not supported",
     "rate_limit_exceeded", "in", "at", "for",
     "to", "now", "tool", "function",
     "tokyo", "new york", "london", "paris",
     "berlin", "moscow", "sydney", "melbourne",
     "toronto", "vancouver", "mumbai", "delhi",
     "bangalore", "singapore", "hong kong", "seoul",
     "beijing", "shanghai", "dubai", "istanbul",
     "cairo", "rio de janeiro", "sao paulo", "mexico city",
     "buenos aires", "los angeles", "chicago", "san francisco",
     "miami", "boston", "seattle", "denver",
     "phoenix", "dallas", "houston", "osaka",
     "kyoto", "yokohama", "nagoya", "fukuoka",
     "sapporo", "sendai", "hiroshima", "kobe",
     "what", "should", "do", "today",
     "tomorrow", "wear", "activities", "i",
     "can"}

Chars(s) ==
    CASE s = "What should I wear in Tokyo today?" ->
           <<"W","h","a","t"," ","s","h","o","u","l","d"," ","I"," ","w","e","a","r"," ","i","n"," ","T","o","k","y","o"," ","t","o","d","a","y","?">>
      [] s = "What should I wear today?" ->
           <<"W","h","a","t"," ","s","h","o","u","l","d"," ","I"," ","w","e","a","r"," ","t","o","d","a","y","?">>
      [] s = "Plans for Osaka?" ->
           <<"P","l","a","n","s"," ","f","o","r"," ","O","s","a","k","a","?">>
      [] s = "What about Osaka?" ->
           <<"W","h","a","t"," ","a","b","o","u","t"," ","O","s","a","k","a","?">>
      [] s = "Tokyo today" ->
           <<"T","o","k","y","o"," ","t","o","d","a","y">>
      [] s = "Osaka" ->
           <<"O","s","a","k","a">>
      [] s = "tool_use_failed" ->
           <<"t","o","o","l","_","u","s","e","_","f","a","i","l","e","d">>
      [] s = "Function calling is not supported" ->
           <<"F","u","n","c","t","i","o","n"," ","c","a","l","l","i","n","g"," ","i","s"," ","n","o","t"," ","s","u","p","p","o","r","t","e","d">>
      [] s = "rate_limit_exceeded" ->
           <<"r","a","t","e","_","l","i","m","i","t","_","e","x","c","e","e","d","e","d">>
      [] s = "in" ->
           <<"i","n">>
      [] s = "at" ->
           <<"a","t">>
      [] s = "for" ->
           <<"f","o","r">>
      [] s = "to" ->
           <<"t","o">>
      [] s = "now" ->
           <<"n","o","w">>
      [] s = "tool" ->
           <<"t","o","o","l">>
      [] s = "function" ->
           <<"f","u","n","c","t","i","o","n">>
      [] s = "tokyo" ->
           <<"t","o","k","y","o">>
      [] s = "new york" ->
           <<"n","e","w"," ","y","o","r","k">>
      [] s = "london" ->
           <<"l","o","n","d","o","n">>
      [] s = "paris" ->
           <<"p","a","r","i","s">>
      [] s = "berlin" ->
           <<"b","e","r","l","i","n">>
      [] s = "moscow" ->
           <<"m","o","s","c","o","w">>
      [] s = "sydney" ->
           <<"s","y","d","n","e","y">>
      [] s = "melbourne" ->
           <<"m","e","l","b","o","u","r","n","e">>
      [] s = "toronto" ->
           <<"t","o","r","o","n","t","o">>
      [] s = "vancouver" ->
           <<"v","a","n","c","o","u","v","e","r">>
      [] s = "mumbai" ->
           <<"m","u","m","b","a","i">>
      [] s = "delhi" ->
           <<"d","e","l","h","i">>
      [] s = "bangalore" ->
           <<"b","a","n","g","a","l","o","r","e">>
      [] s = "singapore" ->
           <<"s","i","n","g","a","p","o","r","e">>
      [] s = "hong kong" ->
           <<"h","o","n","g"," ","k","o","n","g">>
      [] s = "seoul" ->
           <<"s","e","o","u","l">>
      [] s = "beijing" ->
           <<"b","e","i","j","i","n","g">>
      [] s = "shanghai" ->
           <<"s","h","a","n","g","h","a","i">>
      [] s = "dubai" ->
           <<"d","u","b","a","i">>
      [] s = "istanbul" ->
           <<"i","s","t","a","n","b","u","l">>
      [] s = "cairo" ->
           <<"c","a","i","r","o">>
      [] s = "rio de janeiro" ->
           <<"r","i","o"," ","d","e"," ","j","a","n","e","i","r","o">>
      [] s = "sao paulo" ->
           <<"s","a","o"," ","p","a","u","l","o">>
      [] s = "mexico city" ->
           <<"m","e","x","i","c","o"," ","c","i","t","y">>
      [] s = "buenos aires" ->
           <<"b","u","e","n","o","s"," ","a","i","r","e","s">>
      [] s = "los angeles" ->
           <<"l","o","s"," ","a","n","g","e","l","e","s">>
      [] s = "chicago" ->
           <<"c","h","i","c","a","g","o">>
      [] s = "san francisco" ->
           <<"s","a","n"," ","f","r","a","n","c","i","s","c","o">>
      [] s = "miami" ->
           <<"m","i","a","m","i">>
      [] s = "boston" ->
           <<"b","o","s","t","o","n">>
      [] s = "seattle" ->
           <<"s","e","a","t","t","l","e">>
      [] s = "denver" ->
           <<"d","e","n","v","e","r">>
      [] s = "phoenix" ->
           <<"p","h","o","e","n","i","x">>
      [] s = "dallas" ->
           <<"d","a","l","l","a","s">>
      [] s = "houston" ->
           <<"h","o","u","s","t","o","n">>
      [] s = "osaka" ->
           <<"o","s","a","k","a">>
      [] s = "kyoto" ->
           <<"k","y","o","t","o">>
      [] s = "yokohama" ->
           <<"y","o","k","o","h","a","m","a">>
      [] s = "nagoya" ->
           <<"n","a","g","o","y","a">>
      [] s = "fukuoka" ->
           <<"f","u","k","u","o","k","a">>
      [] s = "sapporo" ->
           <<"s","a","p","p","o","r","o">>
      [] s = "sendai" ->
           <<"s","e","n","d","a","i">>
      [] s = "hiroshima" ->
           <<"h","i","r","o","s","h","i","m","a">>
      [] s = "kobe" ->
           <<"k","o","b","e">>
      [] s = "what" ->
           <<"w","h","a","t">>
      [] s = "should" ->
           <<"s","h","o","u","l","d">>
      [] s = "do" ->
           <<"d","o">>
      [] s = "today" ->
           <<"t","o","d","a","y">>
      [] s = "tomorrow" ->
           <<"t","o","m","o","r","r","o","w">>
      [] s = "wear" ->
           <<"w","e","a","r">>
      [] s = "activities" ->
           <<"a","c","t","i","v","i","t","i","e","s">>
      [] s = "i" ->
           <<"i">>
      [] s = "can" ->
           <<"c","a","n">>

\* The string with these characters.
Str(t) == CHOOSE s \in StringPool : Chars(s) = t

UpperLetters ==
    {"A", "B", "C", "D", "E", "F", "G", "H", "I", "J", "K", "L", "M",
     "N", "O", "P", "Q", "R", "S", "T", "U", "V", "W", "X", "Y", "Z"}
LowerLetters ==
    {"a", "b", "c", "d", "e", "f", "g", "h", "i", "j", "k", "l", "m",
     "n", "o", "p", "q", "r", "s", "t", "u", "v", "w", "x", "y", "z"}

\* str.lower() of one character.
LowerOf(c) ==
    CASE c = "A" -> "a" [] c = "B" -> "b" [] c = "C" -> "c" [] c = "D" -> "d"
      [] c = "E" -> "e" [] c = "F" -> "f" [] c = "G" -> "g" [] c = "H" -> "h"
      [] c = "I" -> "i" [] c = "J" -> "j" [] c = "K" -> "k" [] c = "L" -> "l"
      [] c = "M" -> "m" [] c = "N" -> "n" [] c = "O" -> "o" [] c = "P" -> "p"
      [] c = "Q" -> "q" [] c = "R" -> "r" [] c = "S" -> "s" [] c = "T" -> "t"
      [] c = "U" -> "u" [] c = "V" -> "v" [] c = "W" -> "w" [] c = "X" -> "x"
      [] c = "Y" -> "y" [] c = "Z" -> "z"
      [] OTHER -> c

\* line 194-203
major_cities ==
    {"tokyo", "new york", "london", "paris", "berlin", "moscow",
     "sydney", "melbourne", "toronto", "vancouver", "mumbai", "delhi",
     "bangalore", "singapore", "hong kong", "seoul", "beijing", "shanghai",
     "dubai", "istanbul", "cairo", "rio de janeiro", "sao paulo", "mexico city",
     "buenos aires", "los angeles", "chicago", "san francisco", "miami", "boston",
     "seattle", "denver", "phoenix", "dallas", "houston", "osaka",
     "kyoto", "yokohama", "nagoya", "fukuoka", "sapporo", "sendai",
     "hiroshima", "kobe"}
JapaneseCities ==
    <<<<"U+6771","U+4EAC">>, <<"U+5927","U+962A">>, <<"U+4EAC","U+90FD">>,
      <<"U+6A2A","U+6D5C">>, <<"U+540D","U+53E4","U+5C4B">>, <<"U+798F","U+5CA1">>,
      <<"U+672D","U+5E4C">>, <<"U+4ED9","U+53F0">>, <<"U+5E83","U+5CF6">>,
      <<"U+795E","U+6238">>>>
Particles == {"U+3067", "U+306E", "U+306B", "U+3092"}

(***************************************************************************)
(* extract_location_from_query (lines 182-216)                             *)
(*                                                                         *)
(* The three regular expressions are matched the way re.search matches     *)
(* them under re.IGNORECASE: leftmost start first and, at one start, the   *)
(* optional second word before its absence.  A greedy run of letters or   *)
(* of white space always extends to the end of the run, because what      *)
(* follows it in each pattern cannot start with a character of the run.   *)
(***************************************************************************)

Min(S) == CHOOSE x \in S : \A y \in S : x <= y
Max(S) == CHOOSE x \in S : \A y \in S : x >= y

\* Body(v) with v evaluated once.
With(v, Body(_)) == CHOOSE r \in {Body(x) : x \in {v}} : TRUE

\* [a-zA-Z], which is also what [A-Z] matches under re.IGNORECASE
IsLetter(c) == c \in UpperLetters \cup LowerLetters
\* \s
IsSpace(c) == c \in {" ", "\t", "\n", "\r"}
\* str.isupper() of one character
IsUpper(c) == c \in UpperLetters
\* str.lower()
Lower(t) == [k \in 1..Len(t) |-> LowerOf(t[k])]
\* str.strip()
Strip(t) ==
    With({k \in 1..Len(t) : ~IsSpace(t[k])},
         LAMBDA keep : IF keep = {} THEN <<>>
                       ELSE SubSeq(t, Min(keep), Max(keep)))

\* The last index of the longest run of letters (of white space) that starts
\* at i; i - 1 when there is none.
LetterRunEnd(q, i) ==
    CHOOSE j \in (i - 1)..Len(q) :
        /\ \A k \in i..j : IsLetter(q[k])
        /\ (j = Len(q) \/ ~IsLetter(q[j + 1]))
SpaceRunEnd(q, i) ==
    CHOOSE j \in (i - 1)..Len(q) :
        /\ \A k \in i..j : IsSpace(q[k])
        /\ (j = Len(q) \/ ~IsSpace(q[j + 1]))

\* The literal w, compared case-insensitively, stands in q at position i.
LiteralAt(q, i, w) ==
    /\ i + Len(w) - 1 <= Len(q)
    /\ \A k \in 1..Len(w) : LowerOf(q[i + k - 1]) = LowerOf(w[k])

\* [A-Z][a-zA-Z]+ at i: the index of its last letter, or 0 when it does not match.
WordAt(q, i) ==
    IF i > Len(q) THEN 0
    ELSE With(LetterRunEnd(q, i),
              LAMBDA e : IF e - i + 1 >= 2 THEN e ELSE 0)

\* \s+[A-Z][a-zA-Z]+ at i: the index of the word's last letter, or 0.
SpacedWordAt(q, i) ==
    IF i > Len(q) \/ ~IsSpace(q[i]) THEN 0
    ELSE With(SpaceRunEnd(q, i), LAMBDA s : WordAt(q, s + 1))

\* (?:\?|\.|,|$|\s+(?:today|tomorrow|now|should|can)) at i
Pattern1Tail(q, i) ==
    \/ i = Len(q) + 1
    \/ /\ i <= Len(q)
       /\ \/ q[i] \in {"?", ".", ","}
          \/ i = Len(q) /\ q[i] = "\n"
          \/ /\ IsSpace(q[i])
             /\ \E s \in {SpaceRunEnd(q, i)} :
                \E w \in {Chars("today"), Chars("tomorrow"), Chars("now"),
                          Chars("should"), Chars("can")} :
                    LiteralAt(q, s + 1, w)

\* \s+(?:de|no|ni|wo), the four particles, at i
Pattern2Tail(q, i) ==
    /\ i <= Len(q)
    /\ IsSpace(q[i])
    /\ \E s \in {SpaceRunEnd(q, i)} : s + 1 <= Len(q) /\ q[s + 1] \in Particles

\* ([A-Z][a-zA-Z]+(?:\s+[A-Z][a-zA-Z]+)?) at i, followed by the tail of
\* pattern 1 or 2: the group as <<first, last>>, or <<>> for no match at i.
TailAt(tail, q, i) == IF tail = 1 THEN Pattern1Tail(q, i) ELSE Pattern2Tail(q, i)
NameAt(q, i, tail) ==
    With(WordAt(q, i), LAMBDA e1 :
        IF e1 = 0 THEN <<>>
        ELSE With(SpacedWordAt(q, e1 + 1), LAMBDA e2 :
                IF e2 # 0 /\ TailAt(tail, q, e2 + 1) THEN <<i, e2>>
                ELSE IF TailAt(tail, q, e1 + 1) THEN <<i, e1>>
                ELSE <<>>))

\* line 188: (?:in|at|for|to)\s+(...)(...) at i
Pattern1At(q, i) ==
    With({p \in {Chars("in"), Chars("at"), Chars("for"), Chars("to")} :
              LiteralAt(q, i, p)},
         LAMBDA preps :
            IF preps = {} THEN <<>>
            ELSE With(i + Len(CHOOSE p \in preps : TRUE), LAMBDA k :
                    IF k > Len(q) \/ ~IsSpace(q[k]) THEN <<>>
                    ELSE With(SpaceRunEnd(q, k),
                              LAMBDA s : NameAt(q, s + 1, 1))))

\* line 189
Pattern2At(q, i) == NameAt(q, i, 2)

\* line 190
Pattern3At(q, i) ==
    With({c \in 1..Len(JapaneseCities) :
              /\ i + Len(JapaneseCities[c]) - 1 <= Len(q)
              /\ SubSeq(q, i, i + Len(JapaneseCities[c]) - 1) = JapaneseCities[c]},
         LAMBDA hit :
            IF hit = {} THEN <<>>
            ELSE <<i, i + Len(JapaneseCities[Min(hit)]) - 1>>)

PatternAt(n, q, i) ==
    CASE n = 1 -> Pattern1At(q, i)
      [] n = 2 -> Pattern2At(q, i)
      [] n = 3 -> Pattern3At(q, i)

\* re.search(pattern, query, re.IGNORECASE).group(1) as <<group>>, or <<>>
\* for no match
Search(n, q) ==
    With([i \in 1..Len(q) |-> PatternAt(n, q, i)], LAMBDA at :
        With({i \in 1..Len(q) : at[i] # <<>>}, LAMBDA starts :
            IF starts = {} THEN <<>>
            ELSE With(at[Min(starts)], LAMBDA g : <<SubSeq(q, g[1], g[2])>>)))

\* lines 209-214: the stoplist and the validity check
StopWords == {Chars(w) : w \in {"what", "should", "do", "today", "tomorrow",
                                "wear", "activities", "i", "can"}}
MajorCityChars == {Chars(c) : c \in major_cities}
AcceptsLocation(location) ==
    With(Lower(location), LAMBDA location_lower :
        /\ location_lower \notin StopWords
        /\ Len(location) >= 2
        /\ (location_lower \in MajorCityChars \/ IsUpper(location[1])))

\* lines 205-216: the location of the first pattern whose match is accepted,
\* as <<location>>, or <<>>
Found(n, q) ==
    With(Search(n, q), LAMBDA m :
        IF m = <<>> THEN <<>>
        ELSE With(Strip(m[1]), LAMBDA location :
                IF AcceptsLocation(location) THEN <<location>> ELSE <<>>))
ExtractChars(q) ==
    With(<<Found(1, q), Found(2, q), Found(3, q)>>, LAMBDA found :
        IF found[1] # <<>> THEN found[1]
        ELSE IF found[2] # <<>> THEN found[2]
        ELSE found[3])

extract_location_from_query(query, lang) ==
    With(Chars(query), LAMBDA q :
        With(ExtractChars(q), LAMBDA r :
            IF r = <<>> THEN None ELSE Str(r[1])))

\* The queries of the runs below, and what the extractor returns for each
\* (evaluated once).
Queries == {"What should I wear today?", "What should I wear in Tokyo today?"}
ExtractedLocation ==
    [query \in Queries, lang \in {"en", "ja"} |->
        extract_location_from_query(query, lang)]

(***************************************************************************)
(* get_ai_suggestions (lines 219-457): values                              *)
(***************************************************************************)

\* line 296
max_iterations == 3

\* The most tool calls one model response carries, and the most the model
\* requests during one call of get_ai_suggestions.
MaxCalls == 2
MaxToolCalls == 3

\* What the language model can answer with.
ModelTexts == {"Wear a light jacket.", "Take an umbrella."}
ModelErrors == {"tool_use_failed", "Function calling is not supported",
                "rate_limit_exceeded"}

\* tool_call.function.name and tool_call.function.arguments
ToolNames == {"get_weather", "get_forecast"}
GoodArguments == "{\"location\": \"Osaka\"}"
BadArguments == "{\"location\": "
ToolCallKinds ==
    {[name |-> "get_weather", arguments |-> GoodArguments],
     [name |-> "get_weather", arguments |-> BadArguments],
     [name |-> "get_forecast", arguments |-> GoodArguments]}

\* json.loads(arguments) followed by args.get("location") (lines 343-344)
json_loads(arguments) ==
    IF arguments = GoodArguments
    THEN [ok |-> TRUE, location |-> "Osaka"]
    ELSE [ok |-> FALSE, location |-> None]
JsonError == "Expecting property name enclosed in double quotes"

\* fetch_weather (lines 95-103): the provider's payload, or HTTPException(400).
WeatherError == "400: Error fetching weather"
fetch_weather ==
    {[ok |-> TRUE, data |-> s] : s \in Snapshots}
        \cup {[ok |-> FALSE, data |-> WeatherError]}

\* The identifier the model gives the k-th tool call of its answer in a round.
CallId(round, k) == 10 * round + k

\* response.choices[0].message of a round: a text, or tool-call requests.
PlainContent(text) == [content |-> Text(text), tool_calls |-> <<>>]
ToolRequests(round, kinds) ==
    [content |-> NoContent,
     tool_calls |-> [k \in 1..Len(kinds) |->
                        [id |-> CallId(round, k), name |-> kinds[k].name,
                         arguments |-> kinds[k].arguments]]]
ModelResponses(round, budget) ==
    {PlainContent(t) : t \in ModelTexts}
        \cup {ToolRequests(round, kinds) :
                kinds \in UNION {[1..n -> ToolCallKinds] :
                                    n \in 1..(IF budget < MaxCalls THEN budget ELSE MaxCalls)}}

\* line 335 / 385: hasattr(message, 'tool_calls') and message.tool_calls
HasToolCalls(m) == m.tool_calls # <<>>

\* line 321
Contains(t, w) == \E i \in 1..Len(t) : LiteralAt(t, i, w)
IsToolError(e) ==
    With(Lower(Chars(e)), LAMBDA text :
        \/ \E w \in {Chars("tool")} : Contains(text, w)
        \/ \E w \in {Chars("function")} : Contains(text, w))
\* The errors of ModelErrors for which line 321 holds (evaluated once).
ToolErrors == {e \in ModelErrors : IsToolError(e)}

\* ---- the message list.  A content is the template of the formatted string
\* followed by the values put into it.
Msg(role, content, id, name, calls) ==
    [role |-> role, content |-> content, tool_call_id |-> id, name |-> name,
     tool_calls |-> calls]
\* lines 244-259
system_prompt(lang) == <<"system_prompt", lang>>
\* lines 262-275
weather_context(wd) == IF Truthy(wd) THEN <<"Current weather in", wd>> ELSE <<>>
\* lines 278-287
prompt(wd, query, lang) ==
    IF Truthy(query)
    THEN weather_context(wd) \o <<"User query:", query, "fetch weather for that location", lang>>
    ELSE weather_context(wd) \o <<"Based on this weather, suggest", lang>>
\* lines 289-292
InitialMessages(wd, query, lang) ==
    <<Msg("system", system_prompt(lang), 0, None, <<>>),
      Msg("user", prompt(wd, query, lang), 0, None, <<>>)>>
\* lines 354-363, 397-406
weather_info(s) == <<"Weather in", s>>
\* lines 409-417
updated_prompt(s, query, lang) ==
    weather_info(s) \o <<"User query:", query, lang>>
RebuiltMessages(s, query, lang) ==
    <<Msg("system", system_prompt(lang), 0, None, <<>>),
      Msg("user", updated_prompt(s, query, lang), 0, None, <<>>)>>
\* line 337
AssistantMessage(m) == Msg("assistant", m.content, 0, None, m.tool_calls)
\* lines 366-371
ToolResult(call, s) == Msg("tool", weather_info(s), call.id, call.name, <<>>)
\* lines 374-379
ToolError(call, location_name, e) ==
    Msg("tool", <<"Error fetching weather for", location_name, e>>,
        call.id, call.name, <<>>)

\* lines 448-451
MaxIterationsContent ==
    <<"Error: Maximum iterations reached while processing your request.">>
\* line 455
ErrorContent(e) == <<"Error getting AI suggestions:", e>>

NoResult == [content |-> <<"no result">>, weather_data |-> None]

(***************************************************************************)
(* get_ai_suggestions (lines 219-457): the decisions                       *)
(***************************************************************************)

\* Variants of the decisions below, each wrong in one respect.
LoopContinuesOnceMore(it) == it <= max_iterations
DispatchesAnyToolCalls(m, auto) == HasToolCalls(m)
AfterToolFetchKeeps(final, fetched) == final
InOuterTryRequestsOnly(site) == site \in {"request", "retry"}

\* line 300: while iteration < max_iterations
LoopContinues(it) == it < max_iterations

\* line 303: the request carries tools=tools exactly when auto_fetch_weather
OffersTools(auto) == auto

\* line 321: the except handler re-issues the request without tools
RetriesWithoutTools(e) == e \in ToolErrors

\* line 335
DispatchesTools(m, auto) == HasToolCalls(m) /\ auto

\* lines 385-387
TriesExtractor(m, query, wd, it) ==
    /\ ~HasToolCalls(m)
    /\ Truthy(query)
    /\ (~Truthy(wd) \/ it = 0)

\* line 349 and the except at 372: the snapshot after a tool call's fetch
AfterToolFetch(final, fetched) == IF fetched.ok THEN fetched.data ELSE final

\* lines 392 and 420: the snapshot after the extractor fallback's fetch
AfterFallbackFetch(final, fetched) == IF fetched.ok THEN fetched.data ELSE final

\* lines 442-445
ReturnFinal(m, final) == [content |-> m.content, weather_data |-> final]

\* lines 448-451
ReturnMaxIterations(final) ==
    [content |-> MaxIterationsContent, weather_data |-> final]

\* lines 453-457
ReturnError(e, wd, final) == [content |-> ErrorContent(e), weather_data |-> wd]

\* The statements that run inside the try block of lines 294-453.  The
\* prompt is built before it (lines 262-292).
InOuterTry(site) ==
    site \in {"request", "retry", "json_loads"}

(***************************************************************************)
(* get_ai_suggestions: the steps                                           *)
(***************************************************************************)

inputs == <<weather_data, user_query, language>>

RECURSIVE SumCalls(_)
SumCalls(rs) ==
    IF rs = <<>> THEN 0
    ELSE Len(rs[1].message.tool_calls) + SumCalls(Tail(rs))
\* How many more tool calls the model may still request in this call.
Budget == MaxToolCalls - SumCalls(requests)

Return(r) == pc' = "done" /\ result' = r

\* An exception raised at a site: caught at line 453 or propagated.
Raise(site, e) ==
    IF InOuterTry(site)
    THEN Return(ReturnError(e, weather_data, final_weather_data))
    ELSE pc' = "raised" /\ result' = result

\* A request that raised has no response.
NoMessage == [content |-> NoContent, tool_calls |-> <<>>]
Requested(round, tools, retry, error, m) ==
    requests' = Append(requests, [round |-> round, tools |-> tools,
                                  retry |-> retry, error |-> error,
                                  message |-> m])

Fetched(via, id, location, fetched) ==
    fetches' = Append(fetches, [round |-> rounds, via |-> via, id |-> id,
                                location |-> location, ok |-> fetched.ok,
                                data |-> fetched.data])

\* lines 262-298
BuildPrompt ==
    /\ pc = "build"
    /\ IF Truthy(weather_data) /\ weather_data \notin Snapshots
       THEN /\ Raise("build_prompt", "KeyError: 'location'")
            /\ UNCHANGED <<messages, iteration, final_weather_data>>
       ELSE /\ messages' = InitialMessages(weather_data, user_query, language)
            /\ iteration' = 0
            /\ final_weather_data' = weather_data
            /\ pc' = "loop"
            /\ result' = result
    /\ UNCHANGED <<inputs, auto_fetch_weather, message, tc, rounds, requests,
                   fetches, extracts, storeVars>>

\* lines 300, 447-451
LoopExit ==
    /\ pc = "loop"
    /\ ~LoopContinues(iteration)
    /\ Return(ReturnMaxIterations(final_weather_data))
    /\ UNCHANGED <<inputs, auto_fetch_weather, messages, iteration,
                   final_weather_data, message, tc, rounds, requests, fetches,
                   extracts, storeVars>>

\* lines 301-318, 332: the request is answered
ModelAnswers ==
    /\ pc = "loop"
    /\ LoopContinues(iteration)
    /\ \E m \in ModelResponses(rounds + 1, Budget) :
          /\ message' = m
          /\ Requested(rounds + 1, OffersTools(auto_fetch_weather), FALSE,
                       None, m)
    /\ rounds' = rounds + 1
    /\ pc' = "react"
    /\ UNCHANGED <<inputs, auto_fetch_weather, messages, iteration,
                   final_weather_data, tc, result, fetches, extracts, storeVars>>

\* lines 301-321, 329-330: the request raises
ModelFails ==
    /\ pc = "loop"
    /\ LoopContinues(iteration)
    /\ \E e \in ModelErrors :
          /\ Requested(rounds + 1, OffersTools(auto_fetch_weather), FALSE, e,
                       NoMessage)
          /\ IF RetriesWithoutTools(e)
             THEN pc' = "retry" /\ result' = result
             ELSE Raise("request", e)
    /\ rounds' = rounds + 1
    /\ UNCHANGED <<inputs, auto_fetch_weather, messages, iteration,
                   final_weather_data, message, tc, fetches, extracts, storeVars>>

\* lines 322-328, 332: the request re-issued without tools is answered
RetryAnswers ==
    /\ pc = "retry"
    /\ \E m \in ModelResponses(rounds, Budget) :
          /\ message' = m
          /\ Requested(rounds, FALSE, TRUE, None, m)
    /\ auto_fetch_weather' = FALSE
    /\ pc' = "react"
    /\ UNCHANGED <<inputs, messages, iteration, final_weather_data, tc, result,
                   rounds, fetches, extracts, storeVars>>

\* lines 322-327: the request re-issued without tools raises
RetryFails ==
    /\ pc = "retry"
    /\ \E e \in ModelErrors :
          /\ Requested(rounds, FALSE, TRUE, e, NoMessage)
          /\ Raise("retry", e)
    /\ UNCHANGED <<inputs, auto_fetch_weather, messages, iteration,
                   final_weather_data, message, tc, rounds, fetches, extracts,
                   storeVars>>

\* lines 335-337
StartDispatch ==
    /\ pc = "react"
    /\ DispatchesTools(message, auto_fetch_weather)
    /\ messages' = Append(messages, AssistantMessage(message))
    /\ tc' = 1
    /\ pc' = "dispatch"
    /\ UNCHANGED <<inputs, auto_fetch_weather, iteration, final_weather_data,
                   message, result, rounds, requests, fetches, extracts,
                   storeVars>>

\* lines 340-341: a tool call that does not name get_weather is passed over
SkipOtherTool ==
    /\ pc = "dispatch"
    /\ tc <= Len(message.tool_calls)
    /\ message.tool_calls[tc].name # "get_weather"
    /\ tc' = tc + 1
    /\ UNCHANGED <<inputs, auto_fetch_weather, messages, iteration,
                   final_weather_data, message, pc, result, rounds, requests,
                   fetches, extracts, storeVars>>

\* line 343: json.loads raises
ArgumentsMalformed ==
    /\ pc = "dispatch"
    /\ tc <= Len(message.tool_calls)
    /\ message.tool_calls[tc].name = "get_weather"
    /\ ~json_loads(message.tool_calls[tc].arguments).ok
    /\ Raise("json_loads", JsonError)
    /\ UNCHANGED <<inputs, auto_fetch_weather, messages, iteration,
                   final_weather_data, message, tc, rounds, requests, fetches,
                   extracts, storeVars>>

\* lines 343-379: one get_weather call, its fetch succeeding or failing
ToolFetch ==
    /\ pc = "dispatch"
    /\ tc <= Len(message.tool_calls)
    /\ message.tool_calls[tc].name = "get_weather"
    /\ json_loads(message.tool_calls[tc].arguments).ok
    /\ LET call == message.tool_calls[tc]
           location_name == json_loads(call.arguments).location
       IN  \E fetched \in fetch_weather :
              /\ Fetched("tool", call.id, location_name, fetched)
              /\ final_weather_data' = AfterToolFetch(final_weather_data, fetched)
              /\ messages' = Append(messages,
                    IF fetched.ok THEN ToolResult(call, fetched.data)
                    ELSE ToolError(call, location_name, fetched.data))
    /\ tc' = tc + 1
    /\ UNCHANGED <<inputs, auto_fetch_weather, iteration, message, pc, result,
                   rounds, requests, extracts, storeVars>>

\* lines 381-382
EndDispatch ==
    /\ pc = "dispatch"
    /\ tc > Len(message.tool_calls)
    /\ iteration' = iteration + 1
    /\ pc' = "loop"
    /\ UNCHANGED <<inputs, auto_fetch_weather, messages, final_weather_data,
                   message, tc, result, rounds, requests, fetches, extracts,
                   storeVars>>

\* lines 385-419: the extractor finds a location and its weather is fetched
FallbackFetched ==
    /\ pc = "react"
    /\ ~DispatchesTools(message, auto_fetch_weather)
    /\ TriesExtractor(message, user_query, weather_data, iteration)
    /\ LET extracted_location == ExtractedLocation[user_query, language]
       IN  /\ extracted_location # None
           /\ extracts' = Append(extracts, [round |-> rounds,
                                            location |-> extracted_location])
           /\ \E fetched \in fetch_weather :
                 /\ fetched.ok
                 /\ Fetched("extractor", 0, extracted_location, fetched)
                 /\ final_weather_data' =
                        AfterFallbackFetch(final_weather_data, fetched)
                 /\ messages' = RebuiltMessages(fetched.data, user_query, language)
    /\ iteration' = iteration + 1
    /\ pc' = "loop"
    /\ UNCHANGED <<inputs, auto_fetch_weather, message, tc, result, rounds,
                   requests, storeVars>>

\* lines 385-445: the response is returned, perhaps after a fallback that
\* found no location or whose fetch failed
Finalize ==
    /\ pc = "react"
    /\ ~DispatchesTools(message, auto_fetch_weather)
    /\ \/ /\ ~TriesExtractor(message, user_query, weather_data, iteration)
          /\ UNCHANGED <<extracts, fetches, final_weather_data>>
       \/ /\ TriesExtractor(message, user_query, weather_data, iteration)
          /\ ExtractedLocation[user_query, language] = None
          /\ extracts' = Append(extracts, [round |-> rounds, location |-> None])
          /\ UNCHANGED <<fetches, final_weather_data>>
       \/ /\ TriesExtractor(message, user_query, weather_data, iteration)
          /\ LET extracted_location ==
                     ExtractedLocation[user_query, language]
             IN  /\ extracted_location # None
                 /\ extracts' = Append(extracts, [round |-> rounds,
                                          location |-> extracted_location])
                 /\ \E fetched \in fetch_weather :
                       /\ ~fetched.ok
                       /\ Fetched("extractor", 0, extracted_location, fetched)
                       /\ final_weather_data' =
                              AfterFallbackFetch(final_weather_data, fetched)
    /\ Return(ReturnFinal(message, final_weather_data'))
    /\ UNCHANGED <<inputs, auto_fetch_weather, messages, iteration, message,
                   tc, rounds, requests, storeVars>>

(***************************************************************************)
(* get_ai_suggestions as its callers see it: every result a call can       *)
(* return for a well-formed or None snapshot (lines 219-457).              *)
(*   - a response is returned with the snapshot of the last successful     *)
(*     fetch (lines 442-445); its content is the model's text, or None     *)
(*     when the response carries tool calls that are not dispatched;       *)
(*   - three rounds that each dispatch tools or fetch by fallback end in   *)
(*     the maximum-iterations result (lines 448-451);                      *)
(*   - an exception ends in the error result with the snapshot passed in   *)
(*     (lines 453-457).                                                    *)
(***************************************************************************)
AdviseResults(wd, query, lang, allow) ==
    LET extractable == Truthy(query)
                        /\ ExtractedLocation[query, lang] # None
        fetched == IF allow \/ extractable THEN Snapshots ELSE {}
        byMaxIterations ==
            IF allow THEN {wd} \cup Snapshots
            ELSE IF extractable /\ ~Truthy(wd) THEN Snapshots
            ELSE {}
        errors == ModelErrors \cup (IF allow THEN {JsonError} ELSE {})
    IN  {[content |-> c, weather_data |-> f] :
            c \in {Text(t) : t \in ModelTexts} \cup {NoContent},
            f \in {wd} \cup fetched}
        \cup {ReturnMaxIterations(f) : f \in byMaxIterations}
        \cup {ReturnError(e, wd, wd) : e \in errors}

\* Whether the snapshot of a result r of such a call can be one that the call
\* fetched (lines 346-349, 390-392): a returned snapshot other than the input
\* was fetched; one equal to the input was fetched when a fetch of the call
\* returned the same payload.
AdviseFetched(wd, query, lang, allow, r) ==
    IF r.weather_data # wd THEN {TRUE}
    ELSE IF Truthy(wd) /\ (allow \/ (Truthy(query)
                                      /\ ExtractedLocation[query, lang] # None))
         THEN BOOLEAN
         ELSE {FALSE}

(***************************************************************************)
(* The session store and the request handlers (lines 32-33, 483-594).      *)
(* The handlers are plain functions, which the server runs on worker      *)
(* threads: the steps of two requests interleave between any two accesses  *)
(* of the shared dictionary.  A step below is one access of `sessions` or  *)
(* of a session dictionary, together with the thread-local statements      *)
(* around it.                                                              *)
(***************************************************************************)

Threads == {"w1", "w2"}

\* Session identifiers a client may send, and the ones uuid.uuid4() returns.
ClientIds == {"s1"}
GeneratedIds == <<"uuid-1">>
AllIds == ClientIds \cup {GeneratedIds[k] : k \in 1..Len(GeneratedIds)}

\* request.query of a suggestion request ("" is falsy)
StoreQueries == {"", "What should I wear in Tokyo today?"}

\* The requests served in one run of the store.
MaxRequests == 3

\* The contents a run of the store lets get_ai_suggestions return: a text of
\* the model and a degraded error message.
StoreContents ==
    {Text("Wear a light jacket."), ErrorContent("rate_limit_exceeded")}
StoreResults(wd, query, lang, allow) ==
    {r \in AdviseResults(wd, query, lang, allow) : r.content \in StoreContents}

\* line 106-128
format_weather_data(wd) == IF Truthy(wd) THEN <<"formatted", wd>> ELSE <<>>

NoResponse ==
    [status |-> 0, detail |-> None, suggestion |-> <<>>, chat_history |-> <<>>,
     weather_updated |-> FALSE, weather |-> <<>>, session_id |-> None,
     session |-> <<>>, table |-> <<>>, transcript |-> None,
     success |-> FALSE, message |-> None]
\* A variant that answers with success where the handler raises.
HttpErrorAsSuccess(code, text) ==
    [NoResponse EXCEPT !.status = 200, !.detail = text]
HttpError(code, text) == [NoResponse EXCEPT !.status = code, !.detail = text]

\* What the transcription provider can answer: a status (0 stands for a
\* request that raised before any status came back), whether the body of a 200
\* has the transcript path, and the transcript.
Transcripts == {"", "What should I wear today?"}
ProviderStatuses == {0, 200, 401, 503}
ProviderResponses ==
    {p \in [status : ProviderStatuses, wellformed : BOOLEAN,
            transcript : Transcripts] :
        \/ p.status = 200 /\ (p.wellformed \/ p.transcript = "")
        \/ p.status # 200 /\ ~p.wellformed /\ p.transcript = ""}
NoProvider == [status |-> 0, wellformed |-> FALSE, transcript |-> ""]

Idle ==
    [pc |-> "idle", op |-> None, session_id |-> None, query |-> None,
     language |-> None, session |-> 0, weather_data |-> None,
     result |-> NoResult, response |-> NoResponse,
     model_calls |-> 0, weather_calls |-> 0, before |-> <<>>,
     fetched |-> FALSE, provider |-> NoProvider]

\* A thread takes the next request.
Accepts(t) ==
    /\ th[t].pc = "idle"
    /\ served.n < MaxRequests
    /\ served' = [n |-> served.n + 1, by |-> t]
Begin(t, op, sid, query, lang) ==
    [Idle EXCEPT !.op = op, !.session_id = sid, !.query = query,
                 !.language = lang]
\* The request is answered: the thread keeps what it was asked and the
\* response.
Answered(t, r, response, model_calls, weather_calls) ==
    [Idle EXCEPT !.op = r.op, !.session_id = r.session_id,
                 !.response = response,
                 !.model_calls = model_calls, !.weather_calls = weather_calls]

\* session_id not in sessions (lines 489, 583, 591)
SessionMissing(sid) == sessions[sid] = 0

\* A variant of NewSession that stores no snapshot.
NewSessionWithoutSnapshot(wd, lang) ==
    [weather_data |-> None, chat_history |-> <<>>, language |-> lang,
     formatted_weather |-> <<>>]
\* lines 545-549
NewSession(wd, lang) ==
    [weather_data |-> wd, chat_history |-> <<>>, language |-> lang,
     formatted_weather |-> <<>>]

\* A variant of Turn that records every turn as the user's.
TurnAsUser(role, content) == [role |-> "user", content |-> content]
\* lines 510-517
Turn(role, content) == [role |-> role, content |-> content]

\* A variant of SessionOf that finds the first session ever created.
SessionOfAnyone(sid) == 1
\* line 492: session = sessions[session_id]
SessionOf(sid) == sessions[sid]

\* lines 484-493.  `before` remembers the transcript the request found.
GetSuggestionsLookup(t) ==
    /\ Accepts(t)
    /\ \E sid \in AllIds, query \in StoreQueries :
          LET r == Begin(t, "get_suggestions", sid, query, None)
          IN  IF SessionMissing(sid)
              THEN th' = [th EXCEPT ![t] = Answered(t, r,
                            HttpError(404, "Session not found. Please fetch weather first."),
                            0, 0)]
              ELSE th' = [th EXCEPT ![t] = [r EXCEPT
                            !.pc = "advise",
                            !.session = SessionOf(sid),
                            !.weather_data = heap[SessionOf(sid)].weather_data,
                            !.before = heap[SessionOf(sid)].chat_history]]
    /\ UNCHANGED <<sessions, heap, adviseVars>>

\* line 496.  `fetched` remembers whether the returned snapshot was fetched
\* by the call.
GetSuggestionsAdvise(t) ==
    /\ th[t].pc = "advise"
    /\ \E lang \in Languages :
       \E r \in StoreResults(th[t].weather_data, th[t].query, lang, TRUE) :
       \E f \in AdviseFetched(th[t].weather_data, th[t].query, lang, TRUE, r) :
          th' = [th EXCEPT ![t].result = r, ![t].model_calls = 1,
                           ![t].fetched = f, ![t].pc = "update"]
    /\ UNCHANGED <<sessions, heap, adviseVars, served>>

\* A variant of WeatherChanged that does not compare with the old snapshot.
WeatherChangedAlways(r, wd) == Truthy(r.weather_data)
\* lines 499, 526
WeatherChanged(r, wd) == Truthy(r.weather_data) /\ r.weather_data # wd

\* lines 498-504.  formatted_weather, written by the next statement, is read
\* by no handler.
GetSuggestionsUpdate(t) ==
    /\ th[t].pc = "update"
    /\ heap' = IF WeatherChanged(th[t].result, th[t].weather_data)
               THEN [heap EXCEPT
                       ![th[t].session].weather_data = th[t].result.weather_data,
                       ![th[t].session].formatted_weather =
                            format_weather_data(th[t].result.weather_data)]
               ELSE heap
    /\ th' = [th EXCEPT ![t].pc = IF Truthy(th[t].query) THEN "user" ELSE "respond"]
    /\ UNCHANGED <<sessions, adviseVars, served>>

\* lines 507-513
GetSuggestionsUser(t) ==
    /\ th[t].pc = "user"
    /\ heap' = [heap EXCEPT ![th[t].session].chat_history =
                   Append(@, Turn("user", Text(th[t].query)))]
    /\ th' = [th EXCEPT ![t].pc = "assistant"]
    /\ UNCHANGED <<sessions, adviseVars, served>>

\* lines 514-517
GetSuggestionsAssistant(t) ==
    /\ th[t].pc = "assistant"
    /\ heap' = [heap EXCEPT ![th[t].session].chat_history =
                   Append(@, Turn("assistant", th[t].result.content))]
    /\ th' = [th EXCEPT ![t].pc = "respond"]
    /\ UNCHANGED <<sessions, adviseVars, served>>

\* lines 520-530
GetSuggestionsRespond(t) ==
    /\ th[t].pc = "respond"
    /\ LET changed == WeatherChanged(th[t].result, th[t].weather_data)
       IN  th' = [th EXCEPT ![t] = Answered(t, th[t],
                [NoResponse EXCEPT
                    !.status = 200,
                    !.suggestion = th[t].result.content,
                    !.chat_history = heap[th[t].session].chat_history,
                    !.weather_updated = changed,
                    !.weather = IF changed
                                THEN format_weather_data(th[t].result.weather_data)
                                ELSE <<>>],
                th[t].model_calls, th[t].weather_calls)]
    /\ UNCHANGED <<sessions, heap, adviseVars, served>>

\* uuid.uuid4() (line 543): an identifier never returned before
Unused == {k \in 1..Len(GeneratedIds) : sessions[GeneratedIds[k]] = 0}

\* lines 534-549: the weather is fetched and the session written
WeatherWithSuggestionsCreate(t) ==
    /\ Accepts(t)
    /\ \E sid \in AllIds \cup {None}, lang \in Languages, fetched \in fetch_weather :
          /\ sid = None => Unused # {}
          /\ LET r == [Begin(t, "get_weather_with_suggestions", sid, None, lang)
                          EXCEPT !.weather_calls = 1]
                 session_id == IF Truthy(sid) THEN sid ELSE GeneratedIds[Min(Unused)]
             IN  IF ~fetched.ok
                 THEN /\ th' = [th EXCEPT ![t] = Answered(t, r,
                                    HttpError(400, fetched.data), 0, 1)]
                      /\ UNCHANGED <<sessions, heap>>
                 ELSE /\ heap' = Append(heap, NewSession(fetched.data, lang))
                      /\ sessions' = [sessions EXCEPT ![session_id] = Len(heap) + 1]
                      /\ th' = [th EXCEPT ![t] = [r EXCEPT
                                    !.pc = "initial",
                                    !.session_id = session_id,
                                    !.weather_data = fetched.data]]
    /\ UNCHANGED adviseVars

\* lines 551-559
WeatherWithSuggestionsAdvise(t) ==
    /\ th[t].pc = "initial"
    /\ \E r \in StoreResults(th[t].weather_data, None, th[t].language, FALSE) :
          th' = [th EXCEPT ![t] = Answered(t, th[t],
                [NoResponse EXCEPT
                    !.status = 200,
                    !.session_id = th[t].session_id,
                    !.weather = format_weather_data(th[t].weather_data),
                    !.suggestion = r.content],
                1, th[t].weather_calls)]
    /\ UNCHANGED <<sessions, heap, adviseVars, served>>

\* lines 580-585
GetSession(t) ==
    /\ Accepts(t)
    /\ \E sid \in AllIds :
          LET r == Begin(t, "get_session", sid, None, None)
          IN  th' = [th EXCEPT ![t] = Answered(t, r,
                    IF SessionMissing(sid)
                    THEN HttpError(404, "Session not found")
                    ELSE [NoResponse EXCEPT !.status = 200,
                                            !.session = <<heap[sessions[sid]]>>],
                    0, 0)]
    /\ UNCHANGED <<sessions, heap, adviseVars>>

\* A variant of Cleared that resets the snapshot with the transcript.
ClearedWithSnapshot(session) ==
    [session EXCEPT !.chat_history = <<>>, !.weather_data = None]
\* line 593
Cleared(session) == [session EXCEPT !.chat_history = <<>>]

\* lines 588-594
ClearChat(t) ==
    /\ Accepts(t)
    /\ \E sid \in AllIds :
          LET r == Begin(t, "clear_chat", sid, None, None)
          IN  IF SessionMissing(sid)
              THEN /\ th' = [th EXCEPT ![t] = Answered(t, r,
                                HttpError(404, "Session not found"), 0, 0)]
                   /\ heap' = heap
              ELSE /\ th' = [th EXCEPT ![t] = Answered(t, r,
                                [NoResponse EXCEPT !.status = 200,
                                                   !.detail = "Chat history cleared"],
                                0, 0)]
                   /\ heap' = [heap EXCEPT ![sessions[sid]] = Cleared(@)]
    /\ UNCHANGED <<sessions, adviseVars>>

(***************************************************************************)
(* The endpoints that read no session: the locale tables and transcription *)
(***************************************************************************)

\* The language codes a request path can carry.
LanguageCodes == {"en", "ja", "fr"}

\* lines 56-93: one table for each key of the dictionary
translations == [l \in {"en", "ja"} |-> <<"translations", l>>]

\* lines 600-617: the two example lists
ExamplesJa == <<"examples", "ja">>
ExamplesEn == <<"examples", "en">>
\* line 600
examples(code) == IF code = "ja" THEN ExamplesJa ELSE ExamplesEn

\* lines 467-472
GetTranslations(t) ==
    /\ Accepts(t)
    /\ \E code \in LanguageCodes :
          LET r == Begin(t, "get_translations", None, None, code)
          IN  th' = [th EXCEPT ![t] =
                  [Answered(t, r,
                      IF code \notin DOMAIN translations
                      THEN HttpError(400, "Language not supported")
                      ELSE [NoResponse EXCEPT !.status = 200,
                                              !.table = translations[code]],
                      0, 0)
                   EXCEPT !.language = code]]
    /\ UNCHANGED <<sessions, heap, adviseVars>>

\* lines 597-617
GetExamples(t) ==
    /\ Accepts(t)
    /\ \E code \in LanguageCodes :
          LET r == Begin(t, "get_examples", None, None, code)
          IN  th' = [th EXCEPT ![t] =
                  [Answered(t, r,
                      [NoResponse EXCEPT !.status = 200,
                                         !.table = examples(code)],
                      0, 0)
                   EXCEPT !.language = code]]
    /\ UNCHANGED <<sessions, heap, adviseVars>>

\* A variant that lets the provider's status through.
ReraisedAsIs(status) == status
\* lines 178-179: whatever is raised inside the try block, the provider's
\* status at line 176 included, is raised again with status 500
Reraised(status) == 500

\* lines 136-179: what transcribe_audio_deepgram does with the provider's
\* answer p: it returns a transcript, returns None, or raises.
transcribe_audio_deepgram(p) ==
    IF p.status = 0
    THEN [raised |-> TRUE, status |-> Reraised(500), transcript |-> None]
    ELSE IF p.status = 200
    THEN IF ~p.wellformed
         THEN [raised |-> TRUE, status |-> Reraised(500), transcript |-> None]
         ELSE [raised |-> FALSE, status |-> 200,
               transcript |-> IF Truthy(p.transcript) THEN p.transcript ELSE None]
    ELSE [raised |-> TRUE, status |-> Reraised(p.status), transcript |-> None]

\* lines 562-577
TranscribeAudio(t) ==
    /\ Accepts(t)
    /\ \E p \in ProviderResponses, lang \in Languages :
          LET r == Begin(t, "transcribe_audio", None, None, lang)
              transcribed == transcribe_audio_deepgram(p)
              transcript == transcribed.transcript
          IN  th' = [th EXCEPT ![t] =
                  [Answered(t, r,
                      IF transcribed.raised
                      THEN HttpError(transcribed.status, "Transcription error")
                      ELSE IF Truthy(transcript)
                      THEN [NoResponse EXCEPT !.status = 200,
                                              !.transcript = transcript,
                                              !.success = TRUE]
                      ELSE [NoResponse EXCEPT !.status = 200,
                                              !.transcript = None,
                                              !.success = FALSE,
                                              !.message = "No speech detected"],
                      0, 0)
                   EXCEPT !.language = lang, !.provider = p]]
    /\ UNCHANGED <<sessions, heap, adviseVars>>

(***************************************************************************)
(* The specifications                                                      *)
(***************************************************************************)

InputSnapshots == {None, "Tokyo 21C Sunny", Malformed}
InputQueries == {None} \cup Queries

StoreEmpty ==
    /\ sessions = [id \in AllIds |-> 0]
    /\ heap = <<>>
    /\ th = [t \in Threads |-> Idle]
    /\ served = [n |-> 0, by |-> None]

AdviseIdle ==
    /\ pc = "idle"
    /\ weather_data = None
    /\ user_query = None
    /\ language = "en"
    /\ auto_fetch_weather = FALSE
    /\ messages = <<>>
    /\ iteration = 0
    /\ final_weather_data = None
    /\ message = PlainContent("")
    /\ tc = 0
    /\ result = NoResult
    /\ rounds = 0
    /\ requests = <<>>
    /\ fetches = <<>>
    /\ extracts = <<>>

\* One call get_ai_suggestions(weather_data, user_query, language, auto_fetch_weather).
Init ==
    /\ pc = "build"
    /\ weather_data \in InputSnapshots
    /\ user_query \in InputQueries
    /\ language \in Languages
    /\ auto_fetch_weather \in BOOLEAN
    /\ messages = <<>>
    /\ iteration = 0
    /\ final_weather_data = None
    /\ message = PlainContent("")
    /\ tc = 0
    /\ result = NoResult
    /\ rounds = 0
    /\ requests = <<>>
    /\ fetches = <<>>
    /\ extracts = <<>>
    /\ StoreEmpty

Next ==
    \/ BuildPrompt
    \/ LoopExit
    \/ ModelAnswers
    \/ ModelFails
    \/ RetryAnswers
    \/ RetryFails
    \/ StartDispatch
    \/ SkipOtherTool
    \/ ArgumentsMalformed
    \/ ToolFetch
    \/ EndDispatch
    \/ FallbackFetched
    \/ Finalize

Spec == Init /\ [][Next]_vars

\* The server with an empty store.
InitStore == AdviseIdle /\ StoreEmpty

NextStore ==
    \E t \in Threads :
        \/ GetSuggestionsLookup(t)
        \/ GetSuggestionsAdvise(t)
        \/ GetSuggestionsUpdate(t)
        \/ GetSuggestionsUser(t)
        \/ GetSuggestionsAssistant(t)
        \/ GetSuggestionsRespond(t)
        \/ WeatherWithSuggestionsCreate(t)
        \/ WeatherWithSuggestionsAdvise(t)
        \/ GetSession(t)
        \/ ClearChat(t)

SpecStore == InitStore /\ [][NextStore]_vars

\* The server when its requests do not overlap: a request is accepted and
\* continued only while no other request is in progress.
NextSerial ==
    \E t \in Threads :
        /\ \A u \in Threads \ {t} : th[u].pc = "idle"
        /\ \/ GetSuggestionsLookup(t)
           \/ GetSuggestionsAdvise(t)
           \/ GetSuggestionsUpdate(t)
           \/ GetSuggestionsUser(t)
           \/ GetSuggestionsAssistant(t)
           \/ GetSuggestionsRespond(t)
           \/ WeatherWithSuggestionsCreate(t)
           \/ WeatherWithSuggestionsAdvise(t)
           \/ GetSession(t)
           \/ ClearChat(t)

SpecSerial == InitStore /\ [][NextSerial]_vars

\* The endpoints that read no session, beside the one that creates sessions.
NextEndpoints ==
    \E t \in Threads :
        \/ WeatherWithSuggestionsCreate(t)
        \/ WeatherWithSuggestionsAdvise(t)
        \/ GetTranslations(t)
        \/ GetExamples(t)
        \/ TranscribeAudio(t)

SpecEndpoints == InitStore /\ [][NextEndpoints]_vars

(***************************************************************************)
(* What a call's history says.  The properties below are stated over the   *)
(* logs of the collaborators (requests, fetches, extracts), never over the *)
(* locals that the function itself maintains.                              *)
(***************************************************************************)

\* The snapshot last resolved: the payload of the last successful fetch of
\* the call, the input snapshot when none succeeded.
RECURSIVE LastResolvedIn(_, _)
LastResolvedIn(fs, wd) ==
    IF fs = <<>> THEN wd
    ELSE IF fs[Len(fs)].ok THEN fs[Len(fs)].data
    ELSE LastResolvedIn(SubSeq(fs, 1, Len(fs) - 1), wd)
LastResolved == LastResolvedIn(fetches, weather_data)

\* The contents of a degraded result.
ErrorContents == {ErrorContent(e) : e \in ModelErrors \cup {JsonError}}

RequestsWeather(m) ==
    \E k \in 1..Len(m.tool_calls) : m.tool_calls[k].name = "get_weather"
ArgumentsParse(m) ==
    \A k \in 1..Len(m.tool_calls) :
        m.tool_calls[k].name = "get_weather"
            => json_loads(m.tool_calls[k].arguments).ok

\* Every request of the call offered the tool and was answered with at least
\* one get_weather tool call.
EveryRoundRequestsWeather ==
    /\ requests # <<>>
    /\ \A i \in 1..Len(requests) :
          /\ requests[i].tools
          /\ requests[i].error = None
          /\ RequestsWeather(requests[i].message)
EveryArgumentParses ==
    \A i \in 1..Len(requests) : ArgumentsParse(requests[i].message)

FailedToolFetches ==
    {i \in 1..Len(fetches) : fetches[i].via = "tool" /\ ~fetches[i].ok}

(***************************************************************************)
(* The claims about get_ai_suggestions (specification Spec)                *)
(***************************************************************************)

C2_GatewayFailureTolerated ==
    /\ pc = "dispatch"
          => \A i \in FailedToolFetches :
                fetches[i].round = rounds
                    => /\ \E k \in 1..Len(messages) :
                             /\ messages[k].role = "tool"
                             /\ messages[k].tool_call_id = fetches[i].id
                             /\ messages[k].content =
                                  <<"Error fetching weather for",
                                    fetches[i].location, fetches[i].data>>
                       /\ final_weather_data = LastResolved
    /\ pc = "done"
          => \A i \in FailedToolFetches :
                \A j \in 1..Len(requests) :
                    ( /\ requests[j].round = fetches[i].round + 1
                      /\ requests[j].error = None
                      /\ ~HasToolCalls(requests[j].message) )
                        => result.content = requests[j].message.content

\* C3: for a None or well-formed input snapshot no exception leaves the
\* function; a call that is not finished can take a step; a finished call
\* has returned a dictionary with the keys content and weather_data; and
\* when the last request raised, the content describes that error.
C3_NeverPropagates ==
    weather_data # Malformed
        => /\ pc # "raised"
           /\ pc # "done" => ENABLED Next
           /\ pc = "done"
                => /\ DOMAIN result = {"content", "weather_data"}
                   /\ result # NoResult
                   /\ (requests # <<>> /\ requests[Len(requests)].error # None)
                        => result.content =
                             <<"Error getting AI suggestions:",
                               requests[Len(requests)].error>>

\* C3 reached: the model raises in the second round, after a tool call whose
\* fetch failed, and the call returns the error content.
C3_Witness ==
    /\ pc = "done"
    /\ weather_data # Malformed
    /\ rounds = 2
    /\ FailedToolFetches # {}
    /\ requests[Len(requests)].error = "rate_limit_exceeded"
    /\ result.content = ErrorContent("rate_limit_exceeded")

\* C4: a degraded (error) result carries the best snapshot known so far: the
\* payload of the last successful fetch of the call when there is one.
C4_ErrorKeepsBestSnapshot ==
    (pc = "done" /\ result.content \in ErrorContents)
        => result.weather_data = LastResolved

\* C5: a call that finalizes or reaches the maximum number of rounds returns
\* the payload of the most recent successful fetch of the call, and the input
\* snapshot when no fetch succeeded.
C5_ReturnsLastFetch ==
    (pc = "done" /\ result.content \notin ErrorContents)
        => /\ result.weather_data = LastResolved
           /\ (\A i \in 1..Len(fetches) : ~fetches[i].ok)
                => result.weather_data = weather_data

\* C5 reached: one response carried two tool calls whose fetches returned
\* different snapshots, a later fetch failed, and the call finalized with
\* the second snapshot.
C5_Witness ==
    /\ pc = "done"
    /\ result.content \in {Text(t) : t \in ModelTexts}
    /\ Len(fetches) >= 3
    /\ fetches[1].ok /\ fetches[2].ok
    /\ fetches[1].round = fetches[2].round
    /\ fetches[1].data # fetches[2].data
    /\ ~fetches[Len(fetches)].ok
    /\ result.weather_data = fetches[2].data
    /\ result.weather_data # weather_data

\* C6: the location extractor is run in the first round only, and its fetch
\* is the first fetch of the call.
C6_FallbackFirstRoundOnly ==
    /\ \A i \in 1..Len(extracts) : extracts[i].round = 1
    /\ \A i \in 1..Len(fetches) : fetches[i].via = "extractor" => i = 1

\* C7: a tool-offering request rejected with a tool/function error is
\* re-issued once, in the same round, without the tool; after that no request
\* of the call offers the tool and no weather is fetched for a tool call.
C7_ToolsStayDisabled ==
    \A i \in 1..Len(requests) :
        /\ (requests[i].tools /\ requests[i].error \in ToolErrors)
              => IF i = Len(requests) THEN pc = "retry"
                 ELSE /\ requests[i + 1].retry
                      /\ requests[i + 1].round = requests[i].round
                      /\ ~requests[i + 1].tools
        /\ (i > 1 /\ requests[i].retry /\ requests[i - 1].tools)
              => /\ \A j \in (i + 1)..Len(requests) :
                        /\ ~requests[j].tools
                        /\ requests[j].round > requests[i].round
                 /\ \A k \in 1..Len(fetches) :
                        fetches[k].via = "tool"
                            => fetches[k].round < requests[i].round

\* C7 reached: after the re-issued request of round 1 a second round was
\* requested, its response carried tool calls, and the call returned without
\* dispatching them.
C7_Witness ==
    /\ pc = "done"
    /\ Len(requests) = 3
    /\ requests[1].tools /\ requests[1].error \in ToolErrors
    /\ requests[2].retry
    /\ HasToolCalls(requests[3].message)
    /\ result.content = NoContent

\* C8: a call re-issues a failed model request at most once, and only a
\* request that offered the tool.
C8_SingleRetry ==
    /\ Cardinality({i \in 1..Len(requests) : requests[i].retry}) <= 1
    /\ \A i \in 1..Len(requests) :
          requests[i].retry => (i > 1 /\ requests[i - 1].tools)

(***************************************************************************)
(* The claims about the session store (specification SpecStore)            *)
(***************************************************************************)

\* Thread t accepts a request in this step.
AcceptedBy(t) ==
    /\ served'.n = served.n + 1
    /\ served'.by = t

NamesMissingSession(t) ==
    /\ AcceptedBy(t)
    /\ th'[t].op \in {"get_suggestions", "get_session", "clear_chat"}
    /\ sessions[th'[t].session_id] = 0

Alternates(h) ==
    /\ Len(h) % 2 = 0
    /\ \A i \in 1..Len(h) :
          h[i].role = IF i % 2 = 1 THEN "user" ELSE "assistant"

\* C10: whenever no request is in progress, the transcript of every session
\* has even length and alternates user, assistant, starting with user,
\* whatever the interleaving of the requests that were served.
C10_TranscriptsPaired ==
    (\A t \in Threads : th[t].pc = "idle")
        => \A sid \in AllIds :
              sessions[sid] # 0
                  => Alternates(heap[sessions[sid]].chat_history)

(***************************************************************************)
(* The claims about requests that do not overlap (specification            *)
(* SpecSerial)                                                             *)
(***************************************************************************)

\* The two turns a suggestion request records.
Exchange(t) ==
    <<[role |-> "user", content |-> <<th[t].query>>],
      [role |-> "assistant", content |-> th[t].result.content]>>

\* C11 (as amended): when requests do not overlap, a suggestion request with
\* a non-empty query on an existing session has, when it responds, extended
\* the transcript it found by exactly the user turn with the query followed
\* by the assistant turn with the content get_ai_suggestions returned; a
\* request with an empty query leaves the transcript as it found it.
C11_AppendsExchange ==
    \A t \in Threads :
        (th[t].op = "get_suggestions" /\ th[t].pc = "respond")
            => heap[sessions[th[t].session_id]].chat_history =
                 IF th[t].query # ""
                 THEN th[t].before \o Exchange(t)
                 ELSE th[t].before

\* C11 reached: a second exchange, whose content is a degraded error
\* message, was appended after an earlier one.
C11_Witness ==
    \E t \in Threads :
        /\ th[t].op = "get_suggestions"
        /\ th[t].pc = "respond"
        /\ th[t].query # ""
        /\ Len(th[t].before) = 2
        /\ th[t].result.content = ErrorContent("rate_limit_exceeded")
        /\ Len(heap[sessions[th[t].session_id]].chat_history) = 4

\* C11 as stated: every suggestion request on an existing session appends
\* the two turns.
C11_AsStated ==
    \A t \in Threads :
        (th[t].op = "get_suggestions" /\ th[t].pc = "respond")
            => heap[sessions[th[t].session_id]].chat_history =
                 th[t].before \o Exchange(t)

(***************************************************************************)
(* More claims about the session store (specification SpecStore)           *)
(***************************************************************************)

\* Thread t accepts a clear-chat request for a session in the store.
ClearsExisting(t) ==
    /\ AcceptedBy(t)
    /\ th'[t].op = "clear_chat"
    /\ sessions[th'[t].session_id] # 0

\* C12: a clear-chat request on a session in the store leaves that session
\* with an empty transcript and with the snapshot and the language it had,
\* and leaves every other session and the identifiers of the store as they
\* were.
C12_ClearChatFrame ==
    [][\A t \in Threads :
          ClearsExisting(t)
              => LET sid == th'[t].session_id
                 IN  /\ th'[t].response.status = 200
                     /\ sessions' = sessions
                     /\ Len(heap') = Len(heap)
                     /\ heap'[sessions[sid]].chat_history = <<>>
                     /\ heap'[sessions[sid]].weather_data =
                            heap[sessions[sid]].weather_data
                     /\ heap'[sessions[sid]].language =
                            heap[sessions[sid]].language
                     /\ \A other \in AllIds \ {sid} :
                            sessions[other] # 0
                                => heap'[sessions[other]] = heap[sessions[other]]
      ]_vars

\* C12 reached: a session whose transcript held an exchange was cleared: its
\* transcript is empty and it still has its snapshot.
C12_Witness ==
    \E t \in Threads, u \in Threads :
        /\ served.n = 3
        /\ th[t].pc = "idle" /\ th[u].pc = "idle"
        /\ th[t].op = "clear_chat"
        /\ th[t].response.status = 200
        /\ th[u].op = "get_suggestions"
        /\ th[u].session_id = th[t].session_id
        /\ Len(th[u].response.chat_history) = 2
        /\ heap[sessions[th[t].session_id]].chat_history = <<>>
        /\ heap[sessions[th[t].session_id]].weather_data \in Snapshots

(***************************************************************************)
(* More claims about requests that do not overlap (specification           *)
(* SpecSerial)                                                             *)
(***************************************************************************)

\* Thread t answers a suggestion request in this step.
Responds(t) ==
    /\ th[t].op = "get_suggestions"
    /\ th[t].pc = "respond"
    /\ th'[t].pc = "idle"

\* get_ai_suggestions fetched the weather for the request's query and
\* returned the fetched snapshot.
FetchedForQuery(t) == th[t].query # "" /\ th[t].fetched

\* The session keeps the snapshot it had when the request started, and the
\* response says nothing about the weather.
SnapshotKept(t) ==
    /\ heap[sessions[th[t].session_id]].weather_data = th[t].weather_data
    /\ ~th'[t].response.weather_updated
    /\ th'[t].response.weather = <<>>

\* The session has the returned snapshot, and the response carries it with
\* weather_updated = true.
SnapshotReplaced(t) ==
    /\ heap[sessions[th[t].session_id]].weather_data = th[t].result.weather_data
    /\ th'[t].response.weather_updated
    /\ th'[t].response.weather = <<"formatted", th[t].result.weather_data>>

\* C13 (as amended): when a suggestion request responds, if
\* get_ai_suggestions returned a snapshot it fetched and that snapshot differs
\* from the one the session held when the request started, the session holds
\* the returned snapshot and the response carries weather_updated = true with
\* the new weather; if the returned snapshot is None or equal to the one the
\* session held, the session's snapshot is unchanged and the response has no
\* weather_updated flag and no weather.
C13_SnapshotUpdate ==
    [][\A t \in Threads :
          Responds(t)
              => /\ (FetchedForQuery(t)
                       /\ th[t].result.weather_data # th[t].weather_data)
                        => SnapshotReplaced(t)
                 /\ (~Truthy(th[t].result.weather_data)
                       \/ th[t].result.weather_data = th[t].weather_data)
                        => SnapshotKept(t)
      ]_vars

\* C13 reached: a suggestion request was answered with weather_updated =
\* true and the weather of the snapshot its session now holds.
C13_Witness ==
    \E t \in Threads :
        /\ th[t].pc = "idle"
        /\ th[t].op = "get_suggestions"
        /\ th[t].response.status = 200
        /\ th[t].response.weather_updated
        /\ th[t].response.weather =
             <<"formatted", heap[sessions[th[t].session_id]].weather_data>>

\* C13 as stated: whenever get_ai_suggestions returned a snapshot it fetched,
\* the session's snapshot is replaced and the response carries
\* weather_updated = true.
C13_AsStated ==
    [][\A t \in Threads :
          Responds(t)
              => /\ FetchedForQuery(t) => SnapshotReplaced(t)
                 /\ (~Truthy(th[t].result.weather_data)
                       \/ th[t].result.weather_data = th[t].weather_data)
                        => SnapshotKept(t)
      ]_vars


\* Thread t accepts a weather-with-suggestions request in this step.
AcceptsWeather(t) ==
    /\ AcceptedBy(t)
    /\ th'[t].op = "get_weather_with_suggestions"

\* Thread t answers a weather-with-suggestions request in this step.
AnswersWeather(t) ==
    /\ th[t].op = "get_weather_with_suggestions"
    /\ th[t].pc = "initial"
    /\ th'[t].pc = "idle"

\* C14: a weather-with-suggestions request whose fetch fails is answered 400
\* at once, without a model call and with the store as it was; one whose
\* fetch succeeds ends, with one model call made without tools, in a 200
\* response that names a session of the store whose snapshot is the fetched
\* one and whose transcript is empty, and that carries the content
\* get_ai_suggestions returned for that snapshot with no query and tool
\* calls disabled.
C14_WeatherWithSuggestions ==
    [][\A t \in Threads :
          /\ AcceptsWeather(t)
                => \/ /\ th'[t].pc = "initial"
                      /\ th'[t].weather_data \in Snapshots
                   \/ /\ th'[t].pc = "idle"
                      /\ th'[t].response.status = 400
                      /\ th'[t].response.detail = "400: Error fetching weather"
                      /\ th'[t].model_calls = 0
                      /\ sessions' = sessions
                      /\ heap' = heap
          /\ AnswersWeather(t)
                => LET sid == th'[t].response.session_id
                   IN  /\ th'[t].response.status = 200
                       /\ sid \in AllIds
                       /\ sessions[sid] # 0
                       /\ heap[sessions[sid]].weather_data = th[t].weather_data
                       /\ heap[sessions[sid]].chat_history = <<>>
                       /\ th'[t].response.weather =
                              <<"formatted", th[t].weather_data>>
                       /\ th'[t].model_calls = 1
                       /\ th'[t].response.suggestion \in
                              {r.content : r \in AdviseResults(
                                  th[t].weather_data, None, th[t].language, FALSE)}
      ]_vars

\* C14 reached: one request without an identifier was answered with a
\* generated identifier and its session, another was answered 400, and the
\* store holds only the session of the first.
C14_Witness ==
    \E t \in Threads, u \in Threads :
        /\ th[t].pc = "idle" /\ th[u].pc = "idle"
        /\ th[t].op = "get_weather_with_suggestions"
        /\ th[t].response.status = 200
        /\ th[t].response.session_id = "uuid-1"
        /\ heap[sessions["uuid-1"]].weather_data = "Osaka 18C Rain"
        /\ heap[sessions["uuid-1"]].chat_history = <<>>
        /\ th[u].op = "get_weather_with_suggestions"
        /\ th[u].response.status = 400
        /\ sessions["s1"] = 0

(***************************************************************************)
(* More claims about the session store under concurrency (specification    *)
(* SpecStore)                                                              *)
(***************************************************************************)

\* The thread that takes this step.
Actor(t) ==
    IF served' # served THEN served'.by = t ELSE th'[t] # th[t]

\* What the store holds under an identifier.
SessionAt(sid) ==
    IF sessions[sid] = 0 THEN <<>> ELSE <<heap[sessions[sid]]>>

\* C15: in every interleaving, a step of a request on one session identifier
\* leaves what the store holds under every other identifier (presence,
\* snapshot, transcript, language) as it was; so a session changes only by
\* the steps of the requests on its own identifier.
C15_SessionsIsolated ==
    [][\A t \in Threads :
          Actor(t)
              => \A other \in AllIds \ {th'[t].session_id} :
                    SessionAt(other)' = SessionAt(other)
      ]_vars

\* C15 reached: a suggestion request on one session has recorded its user
\* turn while a weather-with-suggestions request has created another session
\* and is not answered yet.
C15_Witness ==
    \E t \in Threads, u \in Threads :
        /\ th[t].op = "get_suggestions"
        /\ th[t].pc = "assistant"
        /\ th[t].session_id = "s1"
        /\ th[u].op = "get_weather_with_suggestions"
        /\ th[u].pc = "initial"
        /\ th[u].session_id = "uuid-1"
        /\ Len(heap[sessions["s1"]].chat_history) = 1
        /\ heap[sessions["uuid-1"]].chat_history = <<>>


(***************************************************************************)
(* The claims about the endpoints that read no session (specification      *)
(* SpecEndpoints)                                                          *)
(***************************************************************************)

\* Thread t accepts a request to the translations or the examples endpoint.
TableRequest(t) ==
    /\ AcceptedBy(t)
    /\ th'[t].op \in {"get_translations", "get_examples"}

\* The table or the example list of a supported locale.
LocaleTable(op, code) ==
    IF op = "get_translations" THEN <<"translations", code>>
    ELSE <<"examples", code>>

\* C16: a request to the translations endpoint or to the examples endpoint
\* with a language code other than en and ja fails with status 400 and changes
\* no session; with a supported code it returns that locale's table or example
\* list.
C16_UnsupportedLanguageRejected ==
    [][\A t \in Threads :
          TableRequest(t)
              => /\ sessions' = sessions
                 /\ heap' = heap
                 /\ IF th'[t].language \in Languages
                    THEN /\ th'[t].response.status = 200
                         /\ th'[t].response.table
                                = LocaleTable(th'[t].op, th'[t].language)
                    ELSE th'[t].response.status = 400]_vars


\* Thread t has answered a transcription request.
Transcribed(t) ==
    /\ th[t].pc = "idle"
    /\ th[t].op = "transcribe_audio"

\* The provider answered 200 with a body that holds a transcript.
ProviderSucceeded(p) == p.status = 200 /\ p.wellformed

\* C17: transcription tells silence from failure.  A 200 from the provider
\* with an empty transcript makes transcribe return None and the endpoint
\* answer success = false with "No speech detected" and no error; a 200 with a
\* non-empty transcript returns that transcript with success = true; every
\* other provider status ends in an error with status 500, never in a None or
\* no-speech result.
C17_SilenceIsNotFailure ==
    \A t \in Threads :
        Transcribed(t)
            => LET p == th[t].provider
                   transcribed == transcribe_audio_deepgram(p)
                   response == th[t].response
               IN  /\ (ProviderSucceeded(p) /\ p.transcript = "")
                          => /\ ~transcribed.raised
                             /\ transcribed.transcript = None
                             /\ response.status = 200
                             /\ response.transcript = None
                             /\ ~response.success
                             /\ response.message = "No speech detected"
                   /\ (ProviderSucceeded(p) /\ p.transcript # "")
                          => /\ ~transcribed.raised
                             /\ transcribed.transcript = p.transcript
                             /\ response.status = 200
                             /\ response.transcript = p.transcript
                             /\ response.success
                   /\ p.status \notin {0, 200}
                          => /\ transcribed.raised
                             /\ response.status = 500
                             /\ response.message # "No speech detected"
                             /\ ~response.success

\* C17 reached: one transcription request met silence and was answered with
\* no speech, another met a provider status of 401 and was answered 500.
C17_Witness ==
    \E t, u \in Threads :
        /\ Transcribed(t)
        /\ ProviderSucceeded(th[t].provider)
        /\ th[t].provider.transcript = ""
        /\ th[t].response.message = "No speech detected"
        /\ Transcribed(u)
        /\ th[u].provider.status = 401
        /\ th[u].response.status = 500


(***************************************************************************)
(* The claims about the extractor and the dispatch of tool calls           *)
(* (specification Spec)                                                    *)
(***************************************************************************)

\* C18: extract_location_from_query("What should I wear in Tokyo today?",
\* "en") returns exactly "Tokyo", and
\* extract_location_from_query("What should I wear today?", "en") returns None:
\* stated of every run of the extractor on the query of an English call.
C18_ExtractsTokyo ==
    \A i \in 1..Len(extracts) :
        language = "en"
            => /\ user_query = "What should I wear in Tokyo today?"
                      => extracts[i].location = "Tokyo"
               /\ user_query = "What should I wear today?"
                      => extracts[i].location = None


\* The dispatch of the tool calls of one response ends in this step, and the
\* loop goes on to resubmit the message list.
DispatchEnds == pc = "dispatch" /\ pc' = "loop"

\* The last n + 1 messages are the assistant response that carried the n
\* requests and one tool-result message for each of them, in request order,
\* each with the identifier of its call.
AnswersEveryCall(list, m) ==
    LET n == Len(m.tool_calls)
        base == Len(list) - n - 1
    IN  /\ base >= 0
        /\ list[base + 1] = AssistantMessage(m)
        /\ \A k \in 1..n :
              /\ list[base + 1 + k].role = "tool"
              /\ list[base + 1 + k].tool_call_id = m.tool_calls[k].id

\* C19: after every tool-dispatch step the message list resubmitted to the
\* model is the previous list extended by the assistant response that carried
\* the requests and exactly one tool-result message for each requested tool
\* call, in request order and tagged with the identifier of its call, whatever
\* function name the call declares.
C19_OneResultPerCall ==
    [][/\ (pc \in {"react", "dispatch"} /\ pc' = "dispatch")
              => /\ Len(messages') >= Len(messages)
                 /\ SubSeq(messages', 1, Len(messages)) = messages
       /\ DispatchEnds => AnswersEveryCall(messages', message)]_vars


\* The model answered every request of the call with a text: it requested no
\* tool call and no request raised.
ModelOnlyAnswers ==
    \A i \in 1..Len(requests) :
        /\ requests[i].error = None
        /\ ~HasToolCalls(requests[i].message)

\* C20: if the model never requests a tool call and never fails, the call
\* takes at most 2 model rounds, a second one only after one successful fetch
\* of the extractor fallback, and returns the text of the model's last
\* response, never the maximum-iterations message, for a None input snapshot
\* as for any other.
C20_TextWithinTwoRounds ==
    ModelOnlyAnswers
        => /\ rounds <= 2
           /\ rounds = 2
                 => /\ Len(fetches) >= 1
                    /\ fetches[1].via = "extractor"
                    /\ fetches[1].ok
                    /\ fetches[1].round = 1
           /\ (pc = "done" /\ requests # <<>>)
                 => /\ result.content = requests[Len(requests)].message.content
                    /\ result.content # MaxIterationsContent


(***************************************************************************)
(* The claims about what a session keeps (specification SpecSerial)        *)
(***************************************************************************)

\* The turns of h are the first turns of g.
IsPrefix(h, g) ==
    /\ Len(h) <= Len(g)
    /\ SubSeq(g, 1, Len(h)) = h

\* This step is the clear-chat request on sid.
ClearChatOn(sid) ==
    \E t \in Threads : ClearsExisting(t) /\ th'[t].session_id = sid

\* C21: the transcript of a session in the store is emptied or shortened by
\* clear-chat only: every step of any other operation on its identifier
\* (suggestion, get-session, weather-with-suggestions with that identifier)
\* leaves the turns already recorded in place.
C21_OnlyClearChatShortens ==
    [][\A sid \in AllIds :
          (sessions[sid] # 0 /\ ~ClearChatOn(sid))
              => /\ sessions'[sid] # 0
                 /\ IsPrefix(heap[sessions[sid]].chat_history,
                             heap'[sessions'[sid]].chat_history)]_vars


(***************************************************************************)
(* What the store never loses (specification SpecStore)                    *)
(***************************************************************************)

InitialSuggestionCall ==
    /\ ~auto_fetch_weather
    /\ \A i \in 1..Len(requests) : ~requests[i].tools
    /\ user_query = None
    /\ weather_data # Malformed

\* No request of the call raised.
ModelNeverFails == \A i \in 1..Len(requests) : requests[i].error = None

\* C23: a call with tool calls disallowed and no user query fetches no
\* weather, never runs the location extractor and returns the input snapshot
\* unchanged, whatever the model's response contains; when the model does not
\* fail it takes exactly one model round and returns that response's content.
C23_InitialSuggestionOneRound ==
    InitialSuggestionCall
        => /\ fetches = <<>>
           /\ extracts = <<>>
           /\ rounds <= 1
           /\ pc = "done"
                 => /\ result.weather_data = weather_data
                    /\ ModelNeverFails
                          => /\ rounds = 1
                             /\ Len(requests) = 1
                             /\ result.content = requests[1].message.content

\* C23 reached: the model answered the only round of such a call with a
\* get_weather tool call, and the call returned the snapshot it was given.
C23_Witness ==
    /\ InitialSuggestionCall
    /\ pc = "done"
    /\ rounds = 1
    /\ ModelNeverFails
    /\ RequestsWeather(requests[1].message)
    /\ weather_data \in Snapshots
    /\ result.weather_data = weather_data

====
